---- MODULE Spec2Model ----
(***************************************************************************)
(* braid-dspy: the GRD (Guided Reasoning Diagram) engine.                  *)
(*                                                                         *)
(* A diagram text is a sequence of one-character strings.  The regular     *)
(* expressions of braid/utils.py are modelled by scanners over that        *)
(* sequence that follow Python's leftmost, greedy, non-overlapping         *)
(* matching.  The scores of braid/optimizer.py (GRDMetrics) are Python     *)
(* floats built from the weights 0.1 .. 0.4 and one quotient of two        *)
(* lengths; they are modelled as exact rationals [n, d] in lowest terms.   *)
(*                                                                         *)
(* braid/parser.py (MermaidParser, GRDStructure) is imported by            *)
(* optimizer.py but is not among the sources: the graph builder and        *)
(* get_execution_order follow sections 4.2 and 4.4 of the specification.   *)
(***************************************************************************)
EXTENDS Integers, Sequences, FiniteSets

(***************************************************************************)
(* Bounds of the model.                                                    *)
(***************************************************************************)
\* Texts are concatenations of at most MaxFrags fragments of Fragments.
MaxFrags == 4
\* A supplied structure declares the first k node ids, k in 0..MaxSmallNodes
\* or around the upper bound of a reasonable node count.
MaxSmallNodes == 3
\* A supplied structure has at most MaxEdges edges.
MaxEdges == 2

(***************************************************************************)
(* Characters.                                                             *)
(***************************************************************************)
NL == "\n"

\* \w of Python's re: letters, digits and the underscore.
WordChars ==
    {"a", "b", "c", "d", "e", "f", "g", "h", "i", "j", "k", "l", "m", "n", "o",
     "p", "q", "r", "s", "t", "u", "v", "w", "x", "y", "z", "A", "B", "C", "D",
     "E", "F", "G", "H", "I", "J", "K", "L", "M", "N", "O", "P", "Q", "R", "S",
     "T", "U", "V", "W", "X", "Y", "Z", "0", "1", "2", "3", "4", "5", "6", "7",
     "8", "9", "_"}

\* \s of Python's re, over the characters the model's texts use.
SpaceChars == {" ", NL, "\t"}

IsWordAt(s, i) == i >= 1 /\ i <= Len(s) /\ s[i] \in WordChars

IsSpaceAt(s, i) == i >= 1 /\ i <= Len(s) /\ s[i] \in SpaceChars

\* The position after the longest run of word characters that starts at i (\w+).
RECURSIVE WordEnd(_, _)
WordEnd(s, i) == IF IsWordAt(s, i) THEN WordEnd(s, i + 1) ELSE i

\* The position after the longest run of whitespace that starts at i (\s*).
RECURSIVE SkipSpace(_, _)
SkipSpace(s, i) == IF IsSpaceAt(s, i) THEN SkipSpace(s, i + 1) ELSE i

\* s has the characters of lit at position i.
LitAt(s, i, lit) ==
    /\ i >= 1
    /\ i + Len(lit) - 1 <= Len(s)
    /\ \A k \in 1..Len(lit) : s[i + k - 1] = lit[k]

\* s[i..j-1]
Slice(s, i, j) == IF j <= i THEN <<>> ELSE SubSeq(s, i, j - 1)

\* str.strip(): leading and trailing whitespace removed.
RECURSIVE LStrip(_)
LStrip(s) == IF s # <<>> /\ Head(s) \in SpaceChars THEN LStrip(Tail(s)) ELSE s

RECURSIVE RStrip(_)
RStrip(s) ==
    IF s # <<>> /\ s[Len(s)] \in SpaceChars
    THEN RStrip(SubSeq(s, 1, Len(s) - 1))
    ELSE s

Strip(s) == RStrip(LStrip(s))

(***************************************************************************)
(* braid/utils.py: validate_mermaid_syntax.                                *)
(***************************************************************************)
KwGraph == <<"g", "r", "a", "p", "h">>

KwFlowchart == <<"f", "l", "o", "w", "c", "h", "a", "r", "t">>

\* ^ without re.MULTILINE: the start of the text only.
LineStartNoMultiline(s, p) == p = 1

\* ^ under re.MULTILINE: the start of the text and the position after each newline.
LineStart(s, p) == p = 1 \/ (p >= 2 /\ p <= Len(s) + 1 /\ s[p - 1] = NL)

\* re.search(r"^\s*(graph|flowchart)", code, re.MULTILINE)
HasDeclaration(s) ==
    \E p \in 1..(Len(s) + 1) :
        /\ LineStart(s, p)
        /\ \/ LitAt(s, SkipSpace(s, p), KwGraph)
           \/ LitAt(s, SkipSpace(s, p), KwFlowchart)

Opening == {"[", "(", "{"}

Closing(c) == IF c = "[" THEN "]" ELSE IF c = "(" THEN ")" ELSE "}"

\* The position of the first `close` at or after i that `.*?` can reach: `.`
\* matches no newline.  0 when there is none.
RECURSIVE CloseAt(_, _, _)
CloseAt(s, i, close) ==
    IF i > Len(s) \/ s[i] = NL THEN 0
    ELSE IF s[i] = close THEN i
    ELSE CloseAt(s, i + 1, close)

\* \w+\s*\[.*?\] | \w+\s*\(.*?\) | \w+\s*\{.*?\} anchored at i.
BracketAt(s, i) ==
    LET k == SkipSpace(s, WordEnd(s, i))
    IN  /\ IsWordAt(s, i)
        /\ k <= Len(s)
        /\ s[k] \in Opening
        /\ CloseAt(s, k + 1, Closing(s[k])) # 0

\* \w+\s*--> | \w+\s*-- anchored at i.
ConnectorAt(s, i) ==
    LET k == SkipSpace(s, WordEnd(s, i))
    IN  /\ IsWordAt(s, i)
        /\ \/ LitAt(s, k, <<"-", "-", ">">>)
           \/ LitAt(s, k, <<"-", "-">>)

\* re.search of the node/edge pattern of line 48.
HasNodeOrEdge(s) == \E i \in 1..Len(s) : BracketAt(s, i) \/ ConnectorAt(s, i)

\* The return statement validate_mermaid_syntax leaves by.
validate_site(s) ==
    IF s = <<>> THEN "empty"
    ELSE IF ~HasDeclaration(s) THEN "declaration"
    ELSE IF ~HasNodeOrEdge(s) THEN "node_or_edge"
    ELSE "valid"

validate_mermaid_syntax(s) == validate_site(s) = "valid"

(***************************************************************************)
(* braid/utils.py: parse_grd_structure.                                    *)
(***************************************************************************)
NoMatch == [found |-> FALSE]

\* node_pattern anchored at i: the identifier, the raw label, the bracket
\* that opens the label and the end.
NodeMatchAt(s, i) ==
    LET k == SkipSpace(s, WordEnd(s, i))
        c == IF k <= Len(s) /\ s[k] \in Opening
             THEN CloseAt(s, k + 1, Closing(s[k])) ELSE 0
    IN  IF IsWordAt(s, i) /\ c # 0
        THEN [found |-> TRUE, id |-> Slice(s, i, WordEnd(s, i)),
              label |-> Slice(s, k + 1, c), open |-> s[k], end |-> c + 1]
        ELSE NoMatch

\* re.finditer(node_pattern, code) from position i: leftmost matches, each
\* search resuming where the last match ended.
RECURSIVE NodeMatches(_, _)
NodeMatches(s, i) ==
    IF i > Len(s) THEN <<>>
    ELSE LET m == NodeMatchAt(s, i)
         IN  IF m.found
             THEN <<[id |-> m.id, label |-> m.label, open |-> m.open]>>
                      \o NodeMatches(s, m.end)
             ELSE NodeMatches(s, i + 1)

\* (-->|--)\s*(\w+) after the source identifier: the directed alternative is
\* tried first, the plain one when it fails.
EdgeMatchAt(s, i) ==
    LET k  == SkipSpace(s, WordEnd(s, i))
        td == SkipSpace(s, k + 3)
        tu == SkipSpace(s, k + 2)
    IN  IF ~IsWordAt(s, i) THEN NoMatch
        ELSE IF LitAt(s, k, <<"-", "-", ">">>) /\ IsWordAt(s, td)
        THEN [found |-> TRUE, from |-> Slice(s, i, WordEnd(s, i)),
              to |-> Slice(s, td, WordEnd(s, td)), type |-> "directed",
              end |-> WordEnd(s, td)]
        ELSE IF LitAt(s, k, <<"-", "-">>) /\ IsWordAt(s, tu)
        THEN [found |-> TRUE, from |-> Slice(s, i, WordEnd(s, i)),
              to |-> Slice(s, tu, WordEnd(s, tu)), type |-> "undirected",
              end |-> WordEnd(s, tu)]
        ELSE NoMatch

RECURSIVE EdgeMatches(_, _)
EdgeMatches(s, i) ==
    IF i > Len(s) THEN <<>>
    ELSE LET m == EdgeMatchAt(s, i)
         IN  IF m.found
             THEN <<[from |-> m.from, to |-> m.to, type |-> m.type]>>
                      \o EdgeMatches(s, m.end)
             ELSE EdgeMatches(s, i + 1)

\* `node_label = match.group(2) or match.group(4) or match.group(6)`: the
\* groups of the alternatives that did not match are None, and `or` returns
\* its last operand when all are falsy.  An empty label in [] or () gives
\* None, and None.strip() raises; an empty label in {} is group(6), the last
\* operand, and gives "".
LabelIsNone(m) == m.label = <<>> /\ m.open # "{"

LabelRaises(matches) == \E k \in 1..Len(matches) : LabelIsNone(matches[k])

\* parse_grd_structure: the error it raises ("none" when it returns), and the
\* node and edge lists it returns.
parse_grd_structure(s) ==
    LET ms == NodeMatches(s, 1)
    IN  IF LabelRaises(ms)
        THEN [raised |-> "AttributeError", nodes |-> <<>>, edges |-> <<>>]
        ELSE [raised |-> "none",
              nodes  |-> [k \in 1..Len(ms) |->
                             [id |-> ms[k].id, label |-> Strip(ms[k].label)]],
              edges  |-> EdgeMatches(s, 1)]

(***************************************************************************)
(* Scores: exact rationals [n, d] in lowest terms, d > 0.                  *)
(***************************************************************************)
RECURSIVE GCD(_, _)
GCD(a, b) == IF b = 0 THEN a ELSE GCD(b, a % b)

Rat(n, d) == [n |-> n \div GCD(n, d), d |-> d \div GCD(n, d)]

Zero == Rat(0, 1)

One == Rat(1, 1)

RAdd(a, b) == Rat(a.n * b.d + b.n * a.d, a.d * b.d)

RMul(a, b) == Rat(a.n * b.n, a.d * b.d)

RDiv(a, b) == Rat(a.n * b.d, a.d * b.n)

RLe(a, b) == a.n * b.d <= b.n * a.d

RLt(a, b) == a.n * b.d < b.n * a.d

RMin(a, b) == IF RLe(a, b) THEN a ELSE b

Range(q) == {q[k] : k \in 1..Len(q)}

(***************************************************************************)
(* GRDStructure and the graph builder (specification, sections 3 and 4.2). *)
(* A structure is [nodes, edges, start_nodes, end_nodes]; an optional      *)
(* structure is <<>> (None) or <<G>>.                                      *)
(***************************************************************************)
\* The node list with later redeclarations of an identifier dropped.
RECURSIVE DedupNodes(_, _)
DedupNodes(nodes, seen) ==
    IF nodes = <<>> THEN <<>>
    ELSE IF Head(nodes).id \in seen THEN DedupNodes(Tail(nodes), seen)
    ELSE <<Head(nodes)>> \o DedupNodes(Tail(nodes), seen \cup {Head(nodes).id})

NodeIdsOf(nodes) == [k \in 1..Len(nodes) |-> nodes[k].id]

HasIncoming(edges, id) ==
    \E k \in 1..Len(edges) : edges[k].type = "directed" /\ edges[k].to = id

HasOutgoing(edges, id) ==
    \E k \in 1..Len(edges) : edges[k].type = "directed" /\ edges[k].from = id

\* start_nodes: the declared nodes with no incoming directed edge, in
\* insertion order.
StartNodesOf(nodes, edges) ==
    LET NoIn(id) == ~HasIncoming(edges, id)
    IN  SelectSeq(NodeIdsOf(nodes), NoIn)

\* end_nodes: the declared nodes with no outgoing directed edge.
EndNodesOf(nodes, edges) ==
    LET NoOut(id) == ~HasOutgoing(edges, id)
    IN  SelectSeq(NodeIdsOf(nodes), NoOut)

BuildStructure(rawNodes, edges) ==
    LET nodes == DedupNodes(rawNodes, {})
    IN  [nodes       |-> nodes,
         edges       |-> edges,
         start_nodes |-> StartNodesOf(nodes, edges),
         end_nodes   |-> EndNodesOf(nodes, edges)]

\* MermaidParser.parse: the matcher of utils.py, then the builder.  It fails
\* with MalformedDiagram when neither a node nor an edge was matched.
parse(s) ==
    LET raw == parse_grd_structure(s)
    IN  IF raw.raised # "none"
        THEN [raised |-> raw.raised, structure |-> <<>>]
        ELSE IF raw.nodes = <<>> /\ raw.edges = <<>>
        THEN [raised |-> "MalformedDiagram", structure |-> <<>>]
        ELSE [raised |-> "none",
              structure |-> <<BuildStructure(raw.nodes, raw.edges)>>]

(***************************************************************************)
(* GRDStructure.get_execution_order (specification, section 4.4).          *)
(***************************************************************************)
DeclaredIds(G) == Range(NodeIdsOf(G.nodes))

\* Successors with the undeclared targets kept.
SuccessorsAny(G, id) ==
    LET Out(e) == e.type = "directed" /\ e.from = id
        es     == SelectSeq(G.edges, Out)
    IN  [k \in 1..Len(es) |-> es[k].to]

\* The directed successors of id, in edge order: the targets of the directed
\* edges leaving id that are declared nodes (the execution order is a
\* sequence of nodes; section 8, Scenario C).
Successors(G, id) ==
    LET Out(e) == e.type = "directed" /\ e.from = id /\ e.to \in DeclaredIds(G)
        es     == SelectSeq(G.edges, Out)
    IN  [k \in 1..Len(es) |-> es[k].to]

\* BfsStep appending the popped node even when the result already has it.
BfsStepAlwaysAppend(G, frontier, result) ==
    LET n       == Head(frontier)
        res     == Append(result, n)
        Fresh(t) == t \notin Range(res)
    IN  [frontier |-> Tail(frontier) \o SelectSeq(Successors(G, n), Fresh),
         result   |-> res]

\* One turn of the loop: pop the earliest frontier node, append it to the
\* result if it is not there, enqueue its successors not yet in the result.
BfsStep(G, frontier, result) ==
    LET n       == Head(frontier)
        res     == IF n \in Range(result) THEN result ELSE Append(result, n)
        Fresh(t) == t \notin Range(res)
    IN  [frontier |-> Tail(frontier) \o SelectSeq(Successors(G, n), Fresh),
         result   |-> res]

RECURSIVE BfsRun(_, _, _)
BfsRun(G, frontier, result) ==
    IF frontier = <<>> THEN result
    ELSE BfsRun(G, BfsStep(G, frontier, result).frontier,
                BfsStep(G, frontier, result).result)

get_execution_order(G) == BfsRun(G, G.start_nodes, <<>>)

(***************************************************************************)
(* braid/optimizer.py: GRDMetrics.                                         *)
(***************************************************************************)
\* The bounds of a "reasonable number of nodes" (optimizer.py, line 44).
MinReasonableNodes == 3

MaxReasonableNodes == 20

structural_validity(grd) == IF validate_mermaid_syntax(grd) THEN One ELSE Zero

\* NodeCountScore with `3 < node_count` for `3 <= node_count`.
NodeCountScoreStrict(node_count) ==
    IF MinReasonableNodes < node_count /\ node_count <= MaxReasonableNodes
    THEN Rat(2, 10)
    ELSE IF node_count > MaxReasonableNodes THEN Rat(1, 10)
    ELSE Zero

\* The score for the node count (lines 43-47).
NodeCountScore(node_count) ==
    IF MinReasonableNodes <= node_count /\ node_count <= MaxReasonableNodes
    THEN Rat(2, 10)
    ELSE IF node_count > MaxReasonableNodes THEN Rat(1, 10)
    ELSE Zero

completeness(G) ==
    LET s1 == IF G.start_nodes # <<>> THEN Rat(3, 10) ELSE Zero
        s2 == IF G.end_nodes # <<>> THEN RAdd(s1, Rat(3, 10)) ELSE s1
        s3 == RAdd(s2, NodeCountScore(Len(G.nodes)))
        s4 == IF Len(G.edges) > 0 THEN RAdd(s3, Rat(2, 10)) ELSE s3
    IN  RMin(s4, One)

\* TraceabilityScore without the division by 2.0.
TraceabilityScoreSum(G, execution_order) ==
    LET reachability_score ==
            Rat(Cardinality(Range(execution_order)), Cardinality(DeclaredIds(G)))
        cycle_score == IF Len(execution_order) = Len(G.nodes) THEN One ELSE Rat(1, 2)
    IN  RAdd(reachability_score, cycle_score)

\* TraceabilityScore with the cycle score 1.0 on both branches.
TraceabilityScoreNoCycle(G, execution_order) ==
    LET reachability_score ==
            Rat(Cardinality(Range(execution_order)), Cardinality(DeclaredIds(G)))
    IN  RDiv(RAdd(reachability_score, One), Rat(2, 1))

\* (reachability_score + cycle_score) / 2.0 (lines 75-84).
TraceabilityScore(G, execution_order) ==
    LET reachable_nodes    == Range(execution_order)
        all_nodes          == DeclaredIds(G)
        reachability_score == Rat(Cardinality(reachable_nodes), Cardinality(all_nodes))
        cycle_score        == IF Len(execution_order) = Len(G.nodes)
                              THEN One ELSE Rat(1, 2)
    IN  RDiv(RAdd(reachability_score, cycle_score), Rat(2, 1))

execution_traceability(G) ==
    LET execution_order == get_execution_order(G)
    IN  IF execution_order = <<>> THEN Zero
        ELSE IF DeclaredIds(G) = {} THEN Zero
        ELSE TraceabilityScore(G, execution_order)

\* WeightedAverage with equal weights.
WeightedAverageEqual(validity_score, completeness_score, traceability_score) ==
    RDiv(RAdd(RAdd(validity_score, completeness_score), traceability_score), Rat(3, 1))

\* WeightedAverage with the completeness score used for both 0.3 terms.
WeightedAverageTwice(validity_score, completeness_score, traceability_score) ==
    RAdd(RAdd(RMul(validity_score, Rat(4, 10)), RMul(completeness_score, Rat(3, 10))),
         RMul(completeness_score, Rat(3, 10)))

\* validity_score * 0.4 + completeness_score * 0.3 + traceability_score * 0.3
WeightedAverage(validity_score, completeness_score, traceability_score) ==
    RAdd(RAdd(RMul(validity_score, Rat(4, 10)), RMul(completeness_score, Rat(3, 10))),
         RMul(traceability_score, Rat(3, 10)))

\* overall_quality without the try/except around parser.parse.
overall_quality_uncaught(grd, grd_structure) ==
    LET validity_score == structural_validity(grd)
        p == parse(grd)
    IN  IF validity_score = Zero
        THEN [value |-> Zero, parsed |-> FALSE, raised |-> "none"]
        ELSE IF grd_structure # <<>>
        THEN [value  |-> WeightedAverage(validity_score,
                                         completeness(grd_structure[1]),
                                         execution_traceability(grd_structure[1])),
              parsed |-> FALSE, raised |-> "none"]
        ELSE IF p.raised # "none"
        THEN [value |-> Zero, parsed |-> TRUE, raised |-> p.raised]
        ELSE [value  |-> WeightedAverage(validity_score,
                                         completeness(p.structure[1]),
                                         execution_traceability(p.structure[1])),
              parsed |-> TRUE, raised |-> "none"]

\* overall_quality(grd, grd_structure): the value returned, whether
\* parser.parse was called, and the error that left the function ("none":
\* the except clause of line 109 catches every Exception of parse).
overall_quality(grd, grd_structure) ==
    LET validity_score == structural_validity(grd)
        p == parse(grd)
    IN  IF validity_score = Zero
        THEN [value |-> Zero, parsed |-> FALSE, raised |-> "none"]
        ELSE IF grd_structure # <<>>
        THEN [value  |-> WeightedAverage(validity_score,
                                         completeness(grd_structure[1]),
                                         execution_traceability(grd_structure[1])),
              parsed |-> FALSE, raised |-> "none"]
        ELSE IF p.raised # "none"
        THEN [value |-> Zero, parsed |-> TRUE, raised |-> "none"]
        ELSE [value  |-> WeightedAverage(validity_score,
                                         completeness(p.structure[1]),
                                         execution_traceability(p.structure[1])),
              parsed |-> TRUE, raised |-> "none"]

(***************************************************************************)
(* Inputs.                                                                 *)
(***************************************************************************)
\* Scenario A of the specification (the format of format_grd_prompt).
ScenarioA ==
    <<"f", "l", "o", "w", "c", "h", "a", "r", "t", " ", "T", "D", NL>>
    \o <<" ", " ", " ", " ", "S", "t", "a", "r", "t", "[", "P", "r", "o", "b",
         "l", "e", "m", " ", "A", "n", "a", "l", "y", "s", "i", "s", "]", " ",
         "-", "-", ">", " ", "S", "t", "e", "p", "1", "[", "D", "o", " ", "W",
         "o", "r", "k", "]", NL>>
    \o <<" ", " ", " ", " ", "S", "t", "e", "p", "1", " ", "-", "-", ">", " ",
         "A", "n", "s", "w", "e", "r", "[", "F", "i", "n", "a", "l", " ", "A",
         "n", "s", "w", "e", "r", "]">>

\* Scenario B: "not a diagram at all".
ScenarioB ==
    <<"n", "o", "t", " ", "a", " ", "d", "i", "a", "g", "r", "a", "m", " ", "a",
      "t", " ", "a", "l", "l">>

\* Scenario C: an edge to the undeclared node Z.
ScenarioC ==
    <<"f", "l", "o", "w", "c", "h", "a", "r", "t", " ", "T", "D", NL>>
    \o <<" ", " ", " ", " ", "A", "[", "x", "]", " ", "-", "-", ">", " ", "B",
         "[", "y", "]", NL>>
    \o <<" ", " ", " ", " ", "B", " ", "-", "-", ">", " ", "Z">>

\* A diagram below a comment line: "%% plan", "graph TD", "A(x) --> A".
CommentedDiagram ==
    <<"%", "%", " ", "p", "l", "a", "n", NL>>
    \o <<"g", "r", "a", "p", "h", " ", "T", "D", NL>>
    \o <<"A", "(", "x", ")", " ", "-", "-", ">", " ", "A">>

ScenarioTexts == {ScenarioA, ScenarioB, ScenarioC, CommentedDiagram}

Fragments ==
    {KwGraph, <<NL>>, <<" ">>, <<"A">>, <<"[">>, <<"]">>, <<"(", "x", ")">>,
     <<"{", "}">>, <<"-", "-">>, <<">">>}

RECURSIVE Concat(_)
Concat(fs) == IF fs = <<>> THEN <<>> ELSE Head(fs) \o Concat(Tail(fs))

GeneratedTexts ==
    {Concat(fs) : fs \in UNION {[1..n -> Fragments] : n \in 0..MaxFrags}}

Texts == GeneratedTexts \cup ScenarioTexts

\* The text a structure built beforehand is scored with (the validator
\* accepts it).
SuppliedTexts == {ScenarioC}

NodeNames ==
    <<"A", "B", "C", "D", "E", "F", "G", "H", "I", "J", "K", "L", "M", "N", "O",
      "P", "Q", "R", "S", "T", "U", "V", "W", "X", "Y", "Z">>

\* The node counts of supplied structures: the small ones, and the two
\* around the upper bound of a reasonable node count.
NodeCounts == (0..MaxSmallNodes) \cup {MaxReasonableNodes, MaxReasonableNodes + 1}

DeclaredNodes(k) == [j \in 1..k |-> [id |-> <<NodeNames[j]>>, label |-> <<"x">>]]

\* The endpoints of the edges of supplied structures; those beyond the node
\* count are undeclared.
EdgeEnds == {<<"A">>, <<"B">>, <<"C">>}

EdgeSet == [from : EdgeEnds, to : EdgeEnds, type : {"directed", "undirected"}]

EdgeLists == UNION {[1..n -> EdgeSet] : n \in 0..MaxEdges}

Structures == {BuildStructure(DeclaredNodes(k), es) : k \in NodeCounts, es \in EdgeLists}

(***************************************************************************)
(* The state machine: a caller holding a text and, possibly, a structure   *)
(* calls the operations of the engine; out is what the last call returned. *)
(* No operation keeps state between calls, so a caller makes one call, or  *)
(* parses and then makes one call with the structure it got (optimizer.py, *)
(* lines 216-222).                                                         *)
(***************************************************************************)
\* origin tells where the caller's structure comes from: "none" (it holds
\* none), "built" (built beforehand) or "parsed" (returned by parse(grd)).
VARIABLES grd, structure, origin, out

\* The locals of a get_execution_order call that is followed turn by turn:
\* the frontier, the result so far, the log of every identifier put into
\* the frontier, and where the call is ("idle", "loop" or "done").
VARIABLES frontier, result, enqueued, pc

vars == <<grd, structure, origin, out, frontier, result, enqueued, pc>>

NoCall ==
    [op |-> "none", value |-> Zero, valid |-> FALSE, site |-> "none",
     parsed |-> FALSE, raised |-> "none", order |-> <<>>,
     nodes |-> <<>>, node_count |-> 0]

\* The caller's text and structure: any text and no structure, or a text and
\* a structure built beforehand.
Inputs == (Texts \X {<<>>}) \cup (SuppliedTexts \X {<<G>> : G \in Structures})

\* No get_execution_order call is being followed.
NotStarted == frontier = <<>> /\ result = <<>> /\ enqueued = <<>> /\ pc = "idle"

Init ==
    /\ \E input \in Inputs : grd = input[1] /\ structure = input[2]
    /\ origin = IF structure = <<>> THEN "none" ELSE "built"
    /\ out = NoCall
    /\ NotStarted

\* What the caller sees of a call of op that ended as r says.
Returned(op, r) ==
    [NoCall EXCEPT !.op = op, !.value = r.value, !.parsed = r.parsed,
                   !.raised = r.raised]

\* The caller has made no call yet, or has just parsed.
Callable == out.op \in {"none", "parse"}

\* validate_mermaid_syntax(grd)
Validate ==
    /\ Callable
    /\ out' = [NoCall EXCEPT !.op = "validate",
                             !.valid = validate_mermaid_syntax(grd),
                             !.site = validate_site(grd)]
    /\ UNCHANGED <<grd, structure, origin, frontier, result, enqueued, pc>>

\* GRDMetrics.structural_validity(grd)
StructuralValidity ==
    /\ Callable
    /\ out' = [NoCall EXCEPT !.op = "structural_validity",
                             !.value = structural_validity(grd)]
    /\ UNCHANGED <<grd, structure, origin, frontier, result, enqueued, pc>>

\* grd_structure = parser.parse(grd), by a caller that holds no structure yet
Parse ==
    /\ out.op = "none"
    /\ structure = <<>>
    /\ out' = [NoCall EXCEPT !.op = "parse", !.raised = parse(grd).raised,
                             !.parsed = TRUE]
    /\ structure' = parse(grd).structure
    /\ origin' = IF parse(grd).raised = "none" THEN "parsed" ELSE "none"
    /\ UNCHANGED <<grd, frontier, result, enqueued, pc>>

\* What the caller sees of parse_grd_structure(grd) that ended as r says:
\* the "nodes" list and "node_count", which is len(nodes).
ReturnedDict(r) ==
    [NoCall EXCEPT !.op = "parse_grd_structure", !.raised = r.raised,
                   !.nodes = r.nodes, !.node_count = Len(r.nodes)]

\* parse_grd_structure(grd)
ParseGrdStructure ==
    /\ Callable
    /\ out' = ReturnedDict(parse_grd_structure(grd))
    /\ UNCHANGED <<grd, structure, origin, frontier, result, enqueued, pc>>

\* grd_structure.get_execution_order()
GetExecutionOrder ==
    /\ Callable
    /\ structure # <<>>
    /\ out' = [NoCall EXCEPT !.op = "get_execution_order",
                             !.order = get_execution_order(structure[1])]
    /\ UNCHANGED <<grd, structure, origin, frontier, result, enqueued, pc>>

\* GRDMetrics.completeness(grd_structure)
Completeness ==
    /\ Callable
    /\ structure # <<>>
    /\ out' = [NoCall EXCEPT !.op = "completeness",
                             !.value = completeness(structure[1])]
    /\ UNCHANGED <<grd, structure, origin, frontier, result, enqueued, pc>>

\* GRDMetrics.execution_traceability(grd_structure)
ExecutionTraceability ==
    /\ Callable
    /\ structure # <<>>
    /\ out' = [NoCall EXCEPT !.op = "execution_traceability",
                             !.value = execution_traceability(structure[1]),
                             !.order = get_execution_order(structure[1])]
    /\ UNCHANGED <<grd, structure, origin, frontier, result, enqueued, pc>>

\* GRDMetrics.overall_quality(grd, grd_structure)
OverallQuality ==
    /\ Callable
    /\ out' = Returned("overall_quality", overall_quality(grd, structure))
    /\ UNCHANGED <<grd, structure, origin, frontier, result, enqueued, pc>>

Next ==
    \/ Validate
    \/ StructuralValidity
    \/ Parse
    \/ ParseGrdStructure
    \/ GetExecutionOrder
    \/ Completeness
    \/ ExecutionTraceability
    \/ OverallQuality

Spec == Init /\ [][Next]_vars

(***************************************************************************)
(* get_execution_order followed turn by turn (specification, section 4.4): *)
(* the caller holds a structure over four declared nodes and calls         *)
(* get_execution_order once; each turn of the loop is one step.            *)
(***************************************************************************)
MaxOrderEdges == 4

\* The nodes A, B, C, D of the structures the call is followed on.
OrderNodes == DeclaredNodes(4)

\* The directed edge number e between two of the nodes, 0 for A --> A up to
\* 15 for D --> D.
OrderEdge(e) ==
    [from |-> OrderNodes[(e \div Len(OrderNodes)) + 1].id,
     to   |-> OrderNodes[(e % Len(OrderNodes)) + 1].id,
     type |-> "directed"]

RECURSIVE OrderEdgeList(_)
\* The edges numbered in S, in ascending order.
OrderEdgeList(S) ==
    IF S = {} THEN <<>>
    ELSE LET e == CHOOSE x \in S : \A y \in S : x <= y
         IN  <<OrderEdge(e)>> \o OrderEdgeList(S \ {e})

\* Every structure over the four nodes with at most MaxOrderEdges distinct
\* directed edges: chains, diamonds, cycles, self-loops, isolated nodes.
OrderStructures ==
    {BuildStructure(OrderNodes, OrderEdgeList(S)) :
        S \in {T \in SUBSET (0..(Len(OrderNodes) * Len(OrderNodes) - 1)) :
                  Cardinality(T) <= MaxOrderEdges}}

InitOrder ==
    /\ grd = ScenarioC
    /\ \E G \in OrderStructures : structure = <<G>>
    /\ origin = "built"
    /\ out = NoCall
    /\ NotStarted

\* The call begins: the frontier is initialized with all start nodes.
OrderBegin ==
    /\ pc = "idle"
    /\ structure # <<>>
    /\ frontier' = structure[1].start_nodes
    /\ enqueued' = structure[1].start_nodes
    /\ result' = <<>>
    /\ pc' = "loop"
    /\ UNCHANGED <<grd, structure, origin, out>>

\* One turn of the loop; the identifiers it put into the frontier are those
\* behind what was left of the old frontier.
OrderTurn ==
    /\ pc = "loop"
    /\ frontier # <<>>
    /\ LET turn == BfsStep(structure[1], frontier, result)
       IN  /\ frontier' = turn.frontier
           /\ result' = turn.result
           /\ enqueued' = enqueued \o SubSeq(turn.frontier, Len(frontier),
                                             Len(turn.frontier))
    /\ UNCHANGED <<grd, structure, origin, out, pc>>

\* The frontier is empty: the call returns the result.
OrderReturn ==
    /\ pc = "loop"
    /\ frontier = <<>>
    /\ out' = [NoCall EXCEPT !.op = "get_execution_order", !.order = result]
    /\ pc' = "done"
    /\ UNCHANGED <<grd, structure, origin, frontier, result, enqueued>>

NextOrder ==
    \/ OrderBegin
    \/ OrderTurn
    \/ OrderReturn

\* The call is synchronous and single-threaded, with no blocking or
\* suspension point (section 5): a step that can be taken is taken.
SpecOrder == InitOrder /\ [][NextOrder]_vars /\ WF_vars(NextOrder)

(***************************************************************************)
(* Properties.                                                             *)
(***************************************************************************)
InUnitRange(v) == RLe(Zero, v) /\ RLe(v, One)

\* Some edge of G has an endpoint that is no declared node.
HasUndeclaredEndpoint(G) ==
    \E k \in 1..Len(G.edges) :
        G.edges[k].from \notin DeclaredIds(G) \/ G.edges[k].to \notin DeclaredIds(G)

\* C1: completeness, execution_traceability and overall_quality each return
\* a value in the closed range [0.0, 1.0], for every text and every structure
\* the builder produces, edges to undeclared node ids included.
C1_ScoresInUnitRange ==
    out.op \in {"completeness", "execution_traceability", "overall_quality"}
        => InUnitRange(out.value)

\* A traceability score above 0 of a structure with an edge to an undeclared id.
C1_Witness ==
    /\ out.op = "execution_traceability"
    /\ HasUndeclaredEndpoint(structure[1])
    /\ RLt(Zero, out.value)

\* C2: overall_quality never raises, and returns 0.0 when the validator
\* rejects the text (parse is then not called, structure supplied or not) and
\* when the validator accepts it, no structure was supplied and parse raises.
C2_FailuresScoreZero ==
    out.op = "overall_quality" =>
        /\ out.raised = "none"
        /\ ~validate_mermaid_syntax(grd) => (out.value = Zero /\ ~out.parsed)
        /\ (/\ validate_mermaid_syntax(grd)
            /\ structure = <<>>
            /\ parse(grd).raised # "none") => out.value = Zero

\* The validator accepted, nothing was supplied, and parse raised.
C2_Witness ==
    /\ out.op = "overall_quality"
    /\ validate_mermaid_syntax(grd)
    /\ structure = <<>>
    /\ parse(grd).raised = "AttributeError"
    /\ out.value = Zero

\* The structure overall_quality scores: the one supplied, else the parsed one.
ScoredStructure ==
    IF structure # <<>> THEN structure[1] ELSE parse(grd).structure[1]

\* C3: when the validator accepts the text, overall_quality returns
\* 0.4 * 1.0 + 0.3 * completeness(G') + 0.3 * execution_traceability(G'), G'
\* being the supplied structure (parse is then not called) or else the
\* structure parse returns.
C3_WeightedCombination ==
    (/\ out.op = "overall_quality"
     /\ validate_mermaid_syntax(grd)
     /\ (structure # <<>> \/ parse(grd).raised = "none")) =>
        /\ 10 * out.value.n * completeness(ScoredStructure).d
                  * execution_traceability(ScoredStructure).d
             = out.value.d
                 * (4 * completeness(ScoredStructure).d
                      * execution_traceability(ScoredStructure).d
                    + 3 * completeness(ScoredStructure).n
                        * execution_traceability(ScoredStructure).d
                    + 3 * execution_traceability(ScoredStructure).n
                        * completeness(ScoredStructure).d)
        /\ out.parsed = (structure = <<>>)

\* An accepted text scored through its own parse, strictly between 0.4 and 1.
C3_Witness ==
    /\ out.op = "overall_quality"
    /\ validate_mermaid_syntax(grd)
    /\ structure = <<>>
    /\ out.parsed
    /\ RLt(Rat(4, 10), out.value)
    /\ RLt(out.value, One)

\* The tenths the four rules of completeness add up to.
CompletenessTenths(G) ==
    (IF Len(G.start_nodes) > 0 THEN 3 ELSE 0)
    + (IF Len(G.end_nodes) > 0 THEN 3 ELSE 0)
    + (IF Len(G.nodes) < 3 THEN 0 ELSE IF Len(G.nodes) <= 20 THEN 2 ELSE 1)
    + (IF Len(G.edges) > 0 THEN 2 ELSE 0)

\* C4: completeness(G) is 0.3 for a start node, plus 0.3 for an end node,
\* plus 0.2 for 3..20 nodes or 0.1 for more than 20, plus 0.2 for an edge,
\* capped at 1.0.
C4_CompletenessSum ==
    out.op = "completeness" =>
        IF CompletenessTenths(structure[1]) > 10
        THEN out.value = One
        ELSE 10 * out.value.n = CompletenessTenths(structure[1]) * out.value.d

\* completeness of a structure of exactly 3 nodes with an edge.
C4_Witness ==
    /\ out.op = "completeness"
    /\ Len(structure[1].nodes) = 3
    /\ Len(structure[1].edges) > 0
    /\ out.value = One

\* C5: execution_traceability(G) is 0.0 when the execution order or the node
\* set is empty, else (r + c) / 2 with r = |order| / |nodes| and c = 1.0 when
\* |order| = |nodes|, else 0.5.
C5_TraceabilityFormula ==
    out.op = "execution_traceability" =>
        IF out.order = <<>> \/ structure[1].nodes = <<>>
        THEN out.value = Zero
        ELSE IF Len(out.order) = Len(structure[1].nodes)
        THEN out.value = One
        ELSE 4 * Len(structure[1].nodes) * out.value.n
                 = (2 * Len(out.order) + Len(structure[1].nodes)) * out.value.d

\* A partly reachable structure: the order is shorter than the node list.
C5_Witness ==
    /\ out.op = "execution_traceability"
    /\ out.order # <<>>
    /\ Len(out.order) < Len(structure[1].nodes)
    /\ RLt(Rat(1, 4), out.value)

\* C6: a structure with 0 nodes has completeness 0.0 and traceability 0.0,
\* also when its edge list is not empty (edge declarations, no node
\* declaration).
C6_NoNodesScoreZero ==
    (/\ out.op \in {"completeness", "execution_traceability"}
     /\ origin = "parsed"
     /\ structure[1].nodes = <<>>) => out.value = Zero

(***************************************************************************)
(* The two acceptance rules of the validator, read off the text line by    *)
(* line.                                                                   *)
(***************************************************************************)
\* The lines of s: the runs between newlines.
RECURSIVE SplitLines(_, _)
SplitLines(s, line) ==
    IF s = <<>> THEN <<line>>
    ELSE IF Head(s) = NL THEN <<line>> \o SplitLines(Tail(s), <<>>)
    ELSE SplitLines(Tail(s), Append(line, Head(s)))

StartsWith(s, lit) == Len(s) >= Len(lit) /\ SubSeq(s, 1, Len(lit)) = lit

\* Rule 1: some line begins, after leading whitespace, with graph or flowchart.
KeywordRule(s) ==
    \E k \in 1..Len(SplitLines(s, <<>>)) :
        \/ StartsWith(LStrip(SplitLines(s, <<>>)[k]), KwGraph)
        \/ StartsWith(LStrip(SplitLines(s, <<>>)[k]), KwFlowchart)

\* An identifier, optional whitespace, then the connector `--` (`-->` begins
\* with it).
HasConnector(s) ==
    \E i \in 1..Len(s), j \in 1..Len(s) :
        /\ i < j
        /\ s[i] \in WordChars
        /\ \A m \in (i + 1)..(j - 1) : s[m] \in SpaceChars
        /\ j + 1 <= Len(s)
        /\ s[j] = "-"
        /\ s[j + 1] = "-"

\* Rule 2: a node declaration (as the matcher finds them) or an edge connector.
PatternRule(s) == NodeMatches(s, 1) # <<>> \/ HasConnector(s)

\* C7: the validator accepts a text exactly when it has a declaration
\* keyword at the start of a line and a node declaration or edge connector;
\* a text without the keyword is rejected before the second rule is looked
\* at; the validator never raises.
C7_ValidatorRules ==
    out.op = "validate" =>
        /\ out.valid = (KeywordRule(grd) /\ PatternRule(grd))
        /\ ~KeywordRule(grd) => out.site \in {"empty", "declaration"}
        /\ out.raised = "none"

\* An accepted text whose keyword is not on the first line.
C7_Witness ==
    /\ out.op = "validate"
    /\ out.valid
    /\ ~StartsWith(LStrip(grd), KwGraph)
    /\ ~StartsWith(LStrip(grd), KwFlowchart)

\* The declared nodes reachable from the start nodes along directed edges.
RECURSIVE ReachableFrom(_, _)
ReachableFrom(G, S) ==
    LET step == S \cup {id \in DeclaredIds(G) :
                           \E k \in 1..Len(G.edges) :
                               /\ G.edges[k].type = "directed"
                               /\ G.edges[k].from \in S
                               /\ G.edges[k].to = id}
    IN  IF step = S THEN S ELSE ReachableFrom(G, step)

Reachable(G) == ReachableFrom(G, Range(G.start_nodes) \cap DeclaredIds(G))

NoRepeats(q) == \A i, j \in 1..Len(q) : q[i] = q[j] => i = j

\* C8: get_execution_order returns a sequence without repeats of declared
\* nodes reachable from a start node; an undeclared edge target is never in
\* it; it is empty when start_nodes is empty.
C8_ExecutionOrderSound ==
    out.op = "get_execution_order" =>
        /\ NoRepeats(out.order)
        /\ Range(out.order) \subseteq Reachable(structure[1])
        /\ Range(out.order) \subseteq DeclaredIds(structure[1])
        /\ structure[1].start_nodes = <<>> => out.order = <<>>

\* A node of the order has a directed edge to an undeclared id (Scenario C).
C8_Witness ==
    /\ out.op = "get_execution_order"
    /\ \E k \in 1..Len(structure[1].edges) :
           /\ structure[1].edges[k].type = "directed"
           /\ structure[1].edges[k].from \in Range(out.order)
           /\ structure[1].edges[k].to \notin DeclaredIds(structure[1])

\* The declared nodes joined to a node of S by edges of either kind.
RECURSIVE ComponentOf(_, _)
ComponentOf(G, S) ==
    LET step == S \cup {id \in DeclaredIds(G) :
                           \E k \in 1..Len(G.edges) :
                               \/ G.edges[k].from \in S /\ G.edges[k].to = id
                               \/ G.edges[k].to \in S /\ G.edges[k].from = id}
    IN  IF step = S THEN S ELSE ComponentOf(G, step)

Components(G) == {ComponentOf(G, {id}) : id \in DeclaredIds(G)}

\* G is made of two disconnected components.
TwoComponents(G) == Cardinality(Components(G)) = 2

\* Some declared node is reachable from no start node.
HasUnreachable(G) == DeclaredIds(G) \ Reachable(G) # {}

\* C9 as stated: for a diagram of two disconnected components the order
\* covers only reachable nodes, the reachability ratio is below 1.0 and
\* overall_quality is below 1.0.
C9_TwoComponentsBelowOne ==
    (/\ out.op = "overall_quality"
     /\ structure # <<>>
     /\ validate_mermaid_syntax(grd)
     /\ TwoComponents(structure[1])) =>
        /\ Range(get_execution_order(structure[1])) \subseteq Reachable(structure[1])
        /\ Len(get_execution_order(structure[1])) < Len(structure[1].nodes)
        /\ RLt(out.value, One)

\* C9 amended: for a diagram of two disconnected components the order covers
\* exactly the nodes reachable from start nodes; the ratio and
\* overall_quality are below 1.0 when some node is reachable from no start
\* node, and the ratio is 1.0 when every node is reachable.
C9_TwoComponentsUnreachable ==
    (/\ out.op = "overall_quality"
     /\ structure # <<>>
     /\ validate_mermaid_syntax(grd)
     /\ TwoComponents(structure[1])) =>
        /\ Range(get_execution_order(structure[1])) = Reachable(structure[1])
        /\ HasUnreachable(structure[1]) =>
               /\ Len(get_execution_order(structure[1])) < Len(structure[1].nodes)
               /\ RLt(out.value, One)
        /\ ~HasUnreachable(structure[1]) =>
               Len(get_execution_order(structure[1])) = Len(structure[1].nodes)

\* Two components, one of them without a start node, scored below 1.0.
C9_Witness ==
    /\ out.op = "overall_quality"
    /\ structure # <<>>
    /\ validate_mermaid_syntax(grd)
    /\ TwoComponents(structure[1])
    /\ HasUnreachable(structure[1])
    /\ structure[1].start_nodes # <<>>
    /\ RLt(out.value, One)

IdStart == <<"S", "t", "a", "r", "t">>

IdStep1 == <<"S", "t", "e", "p", "1">>

IdAnswer == <<"A", "n", "s", "w", "e", "r">>

\* C10: parsing the Scenario A text yields the nodes Start, Step1, Answer,
\* start_nodes = {Start}, end_nodes = {Answer}, the execution order
\* [Start, Step1, Answer], and completeness, traceability and
\* overall_quality of 1.0.
C10_ScenarioA ==
    (grd = ScenarioA /\ out.op = "parse") =>
        /\ out.raised = "none"
        /\ structure # <<>>
        /\ NodeIdsOf(structure[1].nodes) = <<IdStart, IdStep1, IdAnswer>>
        /\ structure[1].start_nodes = <<IdStart>>
        /\ structure[1].end_nodes = <<IdAnswer>>
        /\ get_execution_order(structure[1]) = <<IdStart, IdStep1, IdAnswer>>
        /\ completeness(structure[1]) = One
        /\ execution_traceability(structure[1]) = One
        /\ overall_quality(grd, <<>>).value = One

\* The positions in the node list that carry the identifier id.
PositionsOf(nodes, id) == {k \in 1..Len(nodes) : nodes[k].id = id}

\* The text declares some identifier more than once.
Redeclares(s) ==
    LET ms == NodeMatches(s, 1)
    IN  \E j, k \in 1..Len(ms) : j < k /\ ms[j].id = ms[k].id

\* The stripped label of the first declaration of id in the text.
FirstLabel(s, id) ==
    LET ms    == NodeMatches(s, 1)
        first == CHOOSE j \in 1..Len(ms) :
                     /\ ms[j].id = id
                     /\ \A k \in 1..(j - 1) : ms[k].id # id
    IN  Strip(ms[first].label)

\* C11: when a text declares the same identifier more than once, the
\* structure built from it holds exactly one node with that identifier,
\* labelled as the first declaration, and node_count counts it once.
C11_FirstDeclarationWins ==
    (out.op = "parse_grd_structure" /\ out.raised = "none" /\ Redeclares(grd)) =>
        /\ \A k \in 1..Len(out.nodes) :
               /\ PositionsOf(out.nodes, out.nodes[k].id) = {k}
               /\ out.nodes[k].label = FirstLabel(grd, out.nodes[k].id)
        /\ out.node_count = Cardinality({out.nodes[k].id : k \in 1..Len(out.nodes)})

\* The identifiers the text declares with nothing between the brackets.
EmptyLabelIds(s) ==
    LET ms == NodeMatches(s, 1)
    IN  {ms[k].id : k \in {j \in 1..Len(ms) : ms[j].label = <<>>}}

\* C13: for a text with a declaration whose brackets enclose an empty label
\* (A[], A() or A{}), building the structure raises no error and records a
\* node with that identifier and the empty string as its label.
C13_EmptyLabelAccepted ==
    (out.op = "parse_grd_structure" /\ EmptyLabelIds(grd) # {}) =>
        /\ out.raised = "none"
        /\ \A id \in EmptyLabelIds(grd) :
               \E k \in 1..Len(out.nodes) :
                   out.nodes[k].id = id /\ out.nodes[k].label = <<>>

\* The number of times id was put into the frontier.
TimesEnqueued(id) == Cardinality({k \in 1..Len(enqueued) : enqueued[k] = id})

\* C12 (as claimed): the execution-order computation terminates on every
\* finite structure, cycles, self-loops and nodes with several predecessors
\* included, and each node is enqueued into the frontier at most once.
C12_TerminatesEnqueuedOnce ==
    /\ <>(pc = "done")
    /\ [](\A id \in DeclaredIds(structure[1]) : TimesEnqueued(id) <= 1)

\* C12 (amended): the computation terminates on every finite structure, and
\* each node is appended to the result at most once and only declared nodes
\* are enqueued; a node may be enqueued more than once.
C12_TerminatesAppendedOnce ==
    /\ <>(pc = "done")
    /\ [](/\ NoRepeats(result)
          /\ Range(enqueued) \subseteq DeclaredIds(structure[1])
          /\ Range(result) \subseteq Range(enqueued))

\* The call has returned for a structure with a directed cycle through a
\* node that was enqueued twice.
C12_Witness ==
    /\ pc = "done"
    /\ NoRepeats(out.order)
    /\ \E id \in DeclaredIds(structure[1]) :
           /\ TimesEnqueued(id) > 1
           /\ \E t \in Range(Successors(structure[1], id)) :
                  id \in ReachableFrom(structure[1], {t})

====
